---- MODULE Spec2Model ----
(***************************************************************************)
(* Model of src/ms-tts.mjs: an MCP server with one tool, synthesize_speech. *)
(*                                                                         *)
(* A JavaScript value is a record [t, v]: t is its typeof-like tag and v   *)
(* its text as a sequence of fragments.  A string is the sequence of its   *)
(* fragments, concatenation is \o and the empty string is <<>>.  The       *)
(* fragments of a sentence are its characters, so Len is its length;       *)
(* identifiers (tool names, language codes, voice names) and the fixed     *)
(* parts of messages are one fragment each.                                *)
(***************************************************************************)
EXTENDS Integers, Sequences, FiniteSets, TLC

\* ------------------------------------------------------------ bounds
\* number of request slots of a run
MaxReq == 2
\* last value of the millisecond clock
MaxClock == 1

ReqIds == 1..MaxReq

\* ------------------------------------------------------------ JS values
Undefined == [t |-> "undefined", v |-> <<>>]
Null == [t |-> "null", v |-> <<>>]
Str(frags) == [t |-> "string", v |-> frags]
Num(digits) == [t |-> "number", v |-> <<digits>>]

\* ToBoolean
Truthy(x) ==
    CASE x.t = "undefined" -> FALSE
      [] x.t = "null" -> FALSE
      [] x.t = "string" -> x.v # <<>>
      [] x.t = "number" -> x.v \notin {<<"0">>, <<"NaN">>}
      [] OTHER -> TRUE

\* typeof x === 'string'
IsString(x) == x.t = "string"

\* Array.prototype.includes / String.prototype.includes on fragments
Includes(seq, x) == \E i \in 1..Len(seq) : seq[i] = x

\* Array.prototype.join(', ') of a list of one-fragment strings
RECURSIVE Join(_)
Join(list) ==
    IF list = <<>> THEN <<>>
    ELSE IF Len(list) = 1 THEN <<list[1]>>
    ELSE <<list[1], ", ">> \o Join(Tail(list))

\* ------------------------------------------------------------ VOICE_CONFIG
VOICE_CONFIG ==
    [l \in {"en-US", "fi-FI", "es-ES", "de-DE", "fr-FR", "sv-SE"} |->
        CASE l = "en-US" ->
                [default |-> Str(<<"en-US-RyanMultilingualNeural">>),
                 alternatives |-> <<Str(<<"en-US-JennyMultilingualNeural">>),
                                    Str(<<"en-US-AndrewMultilingualNeural">>)>>]
          [] l = "fi-FI" ->
                [default |-> Str(<<"en-US-RyanMultilingualNeural">>),
                 alternatives |-> <<Str(<<"en-US-JennyMultilingualNeural">>),
                                    Str(<<"fi-FI-SelmaNeural">>),
                                    Str(<<"fi-FI-NooraNeural">>),
                                    Str(<<"fi-FI-HarriNeural">>)>>]
          [] l = "es-ES" ->
                [default |-> Str(<<"es-ES-AlvaroNeural">>),
                 alternatives |-> <<Str(<<"es-ES-ElviraNeural">>)>>]
          [] l = "de-DE" ->
                [default |-> Str(<<"de-DE-ConradNeural">>),
                 alternatives |-> <<Str(<<"de-DE-KatjaNeural">>)>>]
          [] l = "fr-FR" ->
                [default |-> Str(<<"fr-FR-DeniseNeural">>),
                 alternatives |-> <<Str(<<"fr-FR-HenriNeural">>)>>]
          [] l = "sv-SE" ->
                [default |-> Str(<<"sv-SE-MattiasNeural">>),
                 alternatives |-> <<Str(<<"sv-SE-SofieNeural">>)>>]]

\* VOICE_CONFIG[language] is defined: the property key is the language's text
HasLangConfig(language) ==
    /\ language.t \in {"string", "number"}
    /\ Len(language.v) = 1
    /\ language.v[1] \in DOMAIN VOICE_CONFIG

\* getVoiceForLanguage that honours a requested voice only when it is the default
getVoiceForLanguage_DefaultOnly(language, voice) ==
    IF ~HasLangConfig(language)
    THEN VOICE_CONFIG["en-US"].default
    ELSE VOICE_CONFIG[language.v[1]].default

\* getVoiceForLanguage(language, requestedVoice = null)
getVoiceForLanguage(language, voice) ==
    LET requestedVoice == IF voice = Undefined THEN Null ELSE voice
    IN  IF ~HasLangConfig(language)
        THEN VOICE_CONFIG["en-US"].default
        ELSE LET langConfig == VOICE_CONFIG[language.v[1]]
             IN  IF /\ Truthy(requestedVoice)
                    /\ \/ requestedVoice = langConfig.default
                       \/ Includes(langConfig.alternatives, requestedVoice)
                 THEN requestedVoice
                 ELSE langConfig.default


\* ------------------------------------------------------------ configuration
\* AUDIO_OUTPUT_DIR (its default)
AUDIO_OUTPUT_DIR == <<"./audio/mcp-generated">>

\* AZURE_SPEECH_REGION: an environment value or the literal 'westeurope',
\* hence always truthy
AZURE_SPEECH_REGION == Str(<<"westeurope">>)

\* the values process.env can give AZURE_SPEECH_KEY: unset, empty, made of
\* white space only, or a key
SpeechKeys == {Undefined, Str(<<>>), Str(<<" ">>), Str(<<"key">>)}

\* \s of a regular expression, on the characters the sentences use
IsSpace(c) == c \in {" ", "\t", "\n"}

\* the Speech SDK's SpeechConfig.fromSubscription throws on a key that is
\* empty or white space only
FromSubscriptionThrows(key) == \A i \in 1..Len(key.v) : IsSpace(key.v[i])

\* ------------------------------------------------------------ tool registry
\* the validation list with a language that VOICE_CONFIG has no profile for
supportedLanguages_WithDanish ==
    <<"en-US", "fi-FI", "es-ES", "de-DE", "fr-FR", "sv-SE", "da-DK">>

\* supportedLanguages of the CallToolRequestSchema handler
supportedLanguages == <<"en-US", "fi-FI", "es-ES", "de-DE", "fr-FR", "sv-SE">>

\* the tool list with a schema that requires the sentence only
ListTools_SentenceOnly ==
    <<[name |-> "synthesize_speech",
       inputSchema |->
          [type |-> "object",
           properties |->
              [sentence |-> [type |-> "string", minLength |-> 1, maxLength |-> 1000],
               language |-> [type |-> "string",
                             enum |-> <<"en-US", "fi-FI", "es-ES", "de-DE", "fr-FR", "sv-SE">>,
                             default |-> "en-US"],
               voice |-> [type |-> "string"]],
           required |-> <<"sentence">>]]>>

\* the result of the ListToolsRequestSchema handler
ListTools ==
    <<[name |-> "synthesize_speech",
       inputSchema |->
          [type |-> "object",
           properties |->
              [sentence |-> [type |-> "string", minLength |-> 1, maxLength |-> 1000],
               language |-> [type |-> "string",
                             enum |-> <<"en-US", "fi-FI", "es-ES", "de-DE", "fr-FR", "sv-SE">>,
                             default |-> "en-US"],
               voice |-> [type |-> "string"]],
           required |-> <<"sentence", "language">>]]>>

\* ------------------------------------------------------------ responses
\* what the protocol layer sends for a handler that threw
ErrorResponse(message) == [shape |-> "error", text |-> message, tools |-> <<>>]
\* what it sends for a handler that returned {content: [{type: 'text', text}]}
ContentResponse(text) == [shape |-> "content", text |-> text, tools |-> <<>>]
\* what it sends for a handler that returned {tools}
ToolsResponse(tools) == [shape |-> "tools", text |-> <<>>, tools |-> tools]

NoThrow == [thrown |-> FALSE, message |-> <<>>]
Throw(message) == [thrown |-> TRUE, message |-> message]

\* the handler checking the arguments before the tool name
ValidateCall_ArgsFirst(q) ==
    IF q.hasArgs /\ (~Truthy(q.sentence) \/ ~IsString(q.sentence))
    THEN Throw(<<"Invalid or missing \"", "sentence", "\" parameter">>)
    ELSE IF q.name # <<"synthesize_speech">>
    THEN Throw(<<"Unknown tool: ">> \o q.name)
    ELSE NoThrow

\* the handler testing the required fields for truthiness only, not for type
ValidateCall_NoTypeCheck(q) ==
    IF q.name # <<"synthesize_speech">>
    THEN Throw(<<"Unknown tool: ">> \o q.name)
    ELSE IF ~q.hasArgs \/ ~Truthy(q.sentence)
    THEN Throw(<<"Invalid or missing \"", "sentence", "\" parameter">>)
    ELSE IF ~Truthy(q.language)
    THEN Throw(<<"Invalid or missing \"", "language", "\" parameter">>)
    ELSE IF ~(Len(q.language.v) = 1 /\ Includes(supportedLanguages, q.language.v[1]))
    THEN Throw(<<"Unsupported language: ">> \o q.language.v
               \o <<". Supported languages: ">> \o Join(supportedLanguages))
    ELSE NoThrow

\* the handler without the check of the language against supportedLanguages
ValidateCall_NoLanguageCheck(q) ==
    IF q.name # <<"synthesize_speech">>
    THEN Throw(<<"Unknown tool: ">> \o q.name)
    ELSE IF ~q.hasArgs \/ ~Truthy(q.sentence) \/ ~IsString(q.sentence)
    THEN Throw(<<"Invalid or missing \"", "sentence", "\" parameter">>)
    ELSE IF ~Truthy(q.language) \/ ~IsString(q.language)
    THEN Throw(<<"Invalid or missing \"", "language", "\" parameter">>)
    ELSE NoThrow

\* CallToolRequestSchema handler, up to the try block: the error it throws
ValidateCall(q) ==
    IF q.name # <<"synthesize_speech">>
    THEN Throw(<<"Unknown tool: ">> \o q.name)
    ELSE IF ~q.hasArgs
    THEN \* const { sentence, language, voice } = args, args undefined
         Throw(<<"Cannot destructure property '", "sentence", "' of '", "args",
                 "' as it is undefined.">>)
    ELSE IF ~Truthy(q.sentence) \/ ~IsString(q.sentence)
    THEN Throw(<<"Invalid or missing \"", "sentence", "\" parameter">>)
    ELSE IF ~Truthy(q.language) \/ ~IsString(q.language)
    THEN Throw(<<"Invalid or missing \"", "language", "\" parameter">>)
    ELSE IF ~(Len(q.language.v) = 1 /\ Includes(supportedLanguages, q.language.v[1]))
    THEN Throw(<<"Unsupported language: ">> \o q.language.v
               \o <<". Supported languages: ">> \o Join(supportedLanguages))
    ELSE NoThrow

\* ------------------------------------------------------------ synthesizeSpeech
\* sentence.split(/\s+/).length: one more than the number of runs of white space
WordCount(s) ==
    1 + Cardinality({i \in 1..Len(s) : IsSpace(s[i]) /\ (i = 1 \/ ~IsSpace(s[i - 1]))})

\* language.replace('-', '_') on a language code of the form xx-YY
LanguageCode(l) ==
    CASE l = "en-US" -> "en_US"
      [] l = "fi-FI" -> "fi_FI"
      [] l = "es-ES" -> "es_ES"
      [] l = "de-DE" -> "de_DE"
      [] l = "fr-FR" -> "fr_FR"
      [] l = "sv-SE" -> "sv_SE"
      [] OTHER -> l

\* selectedVoice.replace(/[^a-zA-Z0-9]/g, '-'): the voice names of VOICE_CONFIG
\* hold letters, digits and '-' only, which the replacement maps to themselves
VoiceName(voice) == voice.v

\* new Date().toISOString().replace(/[:.]/g, '-') at clock value ms
Timestamp(ms) == <<"1970-01-01T00-00-00-", ToString(ms), "Z">>

\* `mcp-tts-${languageCode}-${voiceName}-${timestamp}.wav`
Filename(language, selectedVoice, ms) ==
    <<"mcp-tts-", LanguageCode(language.v[1]), "-">> \o VoiceName(selectedVoice)
        \o <<"-">> \o Timestamp(ms) \o <<".wav">>

\* resolve(AUDIO_OUTPUT_DIR, filename)
OutputPath(filename) == AUDIO_OUTPUT_DIR \o <<"/">> \o filename

NoLocals ==
    [selectedVoice |-> Undefined, filename |-> <<>>, outputPath |-> <<>>,
     startTime |-> 0, wordCount |-> 0]

\* the locals of synthesizeSpeech when it issues speakTextAsync
StartLocals(sentence, language, voice, clock) ==
    LET selectedVoice == getVoiceForLanguage(language, voice)
        filename == Filename(language, selectedVoice, clock)
    IN  [selectedVoice |-> selectedVoice,
         filename |-> filename,
         outputPath |-> OutputPath(filename),
         startTime |-> clock,
         wordCount |-> WordCount(sentence.v)]

\* synthesizeSpeech without the check of the credentials
SynthesizeStart_NoCredentialCheck(sentence, language, voice, key, clock) ==
    [kind |-> "issued", message |-> <<>>, calls |-> 1,
     locals |-> StartLocals(sentence, language, voice, clock)]

\* synthesizeSpeech issuing the synthesis twice, once for the SSML of
\* createSSML and once for the plain text
SynthesizeStart_SpeaksTwice(sentence, language, voice, key, clock) ==
    IF ~Truthy(key) \/ FromSubscriptionThrows(key)
    THEN [kind |-> "reject", message |-> <<"not configured">>, calls |-> 0,
          locals |-> NoLocals]
    ELSE [kind |-> "issued", message |-> <<>>, calls |-> 2,
          locals |-> StartLocals(sentence, language, voice, clock)]

\* the synchronous part of synthesizeSpeech: it rejects, or it has issued
\* speakTextAsync (calls times) with these locals
SynthesizeStart(sentence, language, voice, key, clock) ==
    IF ~Truthy(key) \/ ~Truthy(AZURE_SPEECH_REGION)
    THEN [kind |-> "reject",
          message |-> <<"Azure Speech Service credentials not configured. Please set AZURE_SPEECH_KEY and AZURE_SPEECH_REGION environment variables.">>,
          calls |-> 0,
          locals |-> NoLocals]
    ELSE IF FromSubscriptionThrows(key)
    THEN [kind |-> "reject",
          message |-> <<"Speech synthesis setup error: ", "throwIfNullOrWhitespace:subscriptionKey">>,
          calls |-> 0,
          locals |-> NoLocals]
    ELSE [kind |-> "issued",
          message |-> <<>>,
          calls |-> 1,
          locals |-> StartLocals(sentence, language, voice, clock)]

\* Number.prototype.toFixed(2) of num/den, in hundredths
Fixed2(num, den) == (2 * 100 * num + den) \div (2 * den)

\* the text of a value in hundredths: 1234 is "12.34"
Fixed2Text(h) ==
    <<ToString(h \div 100), ".", ToString((h % 100) \div 10), ToString(h % 10)>>

NoMetrics ==
    [synthesisTime |-> 0, audioDuration |-> 0, wordCount |-> 0,
     charactersPerSecond |-> 0, wordsPerMinute |-> 0]

NoResult ==
    [success |-> FALSE, audioFile |-> <<>>, filename |-> <<>>, voice |-> Undefined,
     language |-> Undefined, sentence |-> Undefined, metrics |-> NoMetrics]

\* what the Speech SDK hands the success callback: errorDetails, the audio
\* data's presence and byteLength, audioDuration's presence and its value in
\* 100 ns ticks (whole milliseconds)
SynthResults ==
    {[errorDetails |-> Str(<<"Canceled: quota exceeded">>), hasAudioData |-> FALSE,
      byteLength |-> 0, hasAudioDuration |-> FALSE, audioDuration |-> 0],
     [errorDetails |-> Undefined, hasAudioData |-> FALSE,
      byteLength |-> 0, hasAudioDuration |-> FALSE, audioDuration |-> 0],
     [errorDetails |-> Undefined, hasAudioData |-> TRUE,
      byteLength |-> 0, hasAudioDuration |-> TRUE, audioDuration |-> 0]}
    \cup
    {[errorDetails |-> Undefined, hasAudioData |-> TRUE, byteLength |-> 4,
      hasAudioDuration |-> d[1], audioDuration |-> d[2]] :
        d \in {<<FALSE, 0>>, <<TRUE, 0>>, <<TRUE, 10000>>, <<TRUE, 20000000>>}}

\* result.audioDuration ? (result.audioDuration / 10000) : 0, in milliseconds
AudioDurationMs(result) ==
    IF result.hasAudioDuration /\ result.audioDuration # 0
    THEN result.audioDuration \div 10000
    ELSE 0

\* the resultObj with the elapsed time floored at one millisecond (duration || 1)
ResultObj_ElapsedFloor(sentence, language, locals, result, duration) ==
    [success |-> TRUE,
     audioFile |-> locals.outputPath,
     filename |-> locals.filename,
     voice |-> locals.selectedVoice,
     language |-> language,
     sentence |-> sentence,
     metrics |->
        [synthesisTime |-> duration,
         audioDuration |-> AudioDurationMs(result),
         wordCount |-> locals.wordCount,
         charactersPerSecond |->
            Fixed2(Len(sentence.v) * 1000, IF duration > 0 THEN duration ELSE 1),
         wordsPerMinute |->
            IF AudioDurationMs(result) > 0
            THEN Fixed2(locals.wordCount * 60 * 1000, AudioDurationMs(result))
            ELSE 0]]

\* the resultObj of the success callback; charactersPerSecond and
\* wordsPerMinute are the toFixed(2) values in hundredths ('0.00' is 0)
ResultObj(sentence, language, locals, result, duration) ==
    LET audioDuration == AudioDurationMs(result)
    IN  [success |-> TRUE,
         audioFile |-> locals.outputPath,
         filename |-> locals.filename,
         voice |-> locals.selectedVoice,
         language |-> language,
         sentence |-> sentence,
         metrics |->
            [synthesisTime |-> duration,
             audioDuration |-> audioDuration,
             wordCount |-> locals.wordCount,
             charactersPerSecond |->
                IF duration > 0
                THEN Fixed2(Len(sentence.v) * 1000, duration)
                ELSE 0,
             wordsPerMinute |->
                \* audioSeconds = audioDuration / 1000
                IF audioDuration > 0
                THEN Fixed2(locals.wordCount * 60 * 1000, audioDuration)
                ELSE 0]]

NoOutcome == [state |-> "none", message |-> <<>>, result |-> NoResult]
Pending == [state |-> "pending", message |-> <<>>, result |-> NoResult]
Rejected(message) == [state |-> "rejected", message |-> message, result |-> NoResult]
Resolved(result) == [state |-> "resolved", message |-> <<>>, result |-> result]

\* the success callback returning on empty audio without rejecting the promise
SpeakCallback_EmptyAudioUnsettled(sentence, language, locals, result, duration, writeOk) ==
    IF Truthy(result.errorDetails)
    THEN [settle |-> Rejected(<<"Speech synthesis failed: ">> \o result.errorDetails.v),
          wrote |-> FALSE]
    ELSE IF ~result.hasAudioData \/ result.byteLength = 0
    THEN [settle |-> Pending, wrote |-> FALSE]
    ELSE IF ~writeOk
    THEN [settle |-> Rejected(<<"Failed to save audio file: ", "EACCES: permission denied">>),
          wrote |-> FALSE]
    ELSE [settle |-> Resolved(ResultObj(sentence, language, locals, result, duration)),
          wrote |-> TRUE]

\* the success callback saving the audio data before it looks at the result
SpeakCallback_WritesFirst(sentence, language, locals, result, duration, writeOk) ==
    IF Truthy(result.errorDetails)
    THEN [settle |-> Rejected(<<"Speech synthesis failed: ">> \o result.errorDetails.v),
          wrote |-> TRUE]
    ELSE IF ~result.hasAudioData \/ result.byteLength = 0
    THEN [settle |-> Rejected(<<"Speech synthesis produced no audio data">>),
          wrote |-> TRUE]
    ELSE IF ~writeOk
    THEN [settle |-> Rejected(<<"Failed to save audio file: ", "EACCES: permission denied">>),
          wrote |-> FALSE]
    ELSE [settle |-> Resolved(ResultObj(sentence, language, locals, result, duration)),
          wrote |-> TRUE]

\* the success callback of speakTextAsync: how it settles the promise and
\* whether it wrote the file
SpeakCallback(sentence, language, locals, result, duration, writeOk) ==
    IF Truthy(result.errorDetails)
    THEN [settle |-> Rejected(<<"Speech synthesis failed: ">> \o result.errorDetails.v),
          wrote |-> FALSE]
    ELSE IF ~result.hasAudioData \/ result.byteLength = 0
    THEN [settle |-> Rejected(<<"Speech synthesis produced no audio data">>),
          wrote |-> FALSE]
    ELSE IF ~writeOk
    THEN [settle |-> Rejected(<<"Failed to save audio file: ", "EACCES: permission denied">>),
          wrote |-> FALSE]
    ELSE [settle |-> Resolved(ResultObj(sentence, language, locals, result, duration)),
          wrote |-> TRUE]

\* the error callback of speakTextAsync
SpeakErrorCallback == Rejected(<<"Speech synthesis error: ", "connection failed">>)

\* ------------------------------------------------------------ tool call handler
\* the text of the handler's success content
SuccessText(result) ==
    <<"Speech synthesis completed successfully!", "- File: ">> \o result.filename
    \o <<"- Path: ">> \o result.audioFile
    \o <<"- Voice: ">> \o result.voice.v
    \o <<"- Language: ">> \o result.language.v
    \o <<"- Synthesis Time: ", ToString(result.metrics.synthesisTime), "ms",
         "- Audio Duration: ", ToString(result.metrics.audioDuration), "ms",
         "- Word Count: ", ToString(result.metrics.wordCount),
         "- Characters/Second: ">> \o Fixed2Text(result.metrics.charactersPerSecond)
    \o <<"- Words/Minute: ">> \o Fixed2Text(result.metrics.wordsPerMinute)
    \o <<"**Original Text:**", "\"">> \o result.sentence.v \o <<"\"">>

\* the text of the handler's catch block
FailureText(message) ==
    <<"Speech synthesis failed: ">> \o message \o <<"**Troubleshooting Tips:**">>

\* the handler without its catch block: a rejection leaves it as an error
HandlerReturn_NoCatch(settled) ==
    IF settled.state = "resolved"
    THEN ContentResponse(SuccessText(settled.result))
    ELSE ErrorResponse(settled.message)

\* the handler after `await synthesizeSpeech(...)` settled: what it returns
HandlerReturn(settled) ==
    IF settled.state = "resolved"
    THEN ContentResponse(SuccessText(settled.result))
    ELSE ContentResponse(FailureText(settled.message))


\* ------------------------------------------------------------ requests
NoReq ==
    [method |-> "none", name |-> <<>>, hasArgs |-> FALSE,
     sentence |-> Undefined, language |-> Undefined, voice |-> Undefined]

ListRequest ==
    [method |-> "tools/list", name |-> <<>>, hasArgs |-> FALSE,
     sentence |-> Undefined, language |-> Undefined, voice |-> Undefined]

\* a tools/call with an arguments object
Call(name, sentence, language, voice) ==
    [method |-> "tools/call", name |-> <<name>>, hasArgs |-> TRUE,
     sentence |-> sentence, language |-> language, voice |-> voice]

\* a tools/call without arguments
CallNoArgs(name) ==
    [method |-> "tools/call", name |-> <<name>>, hasArgs |-> FALSE,
     sentence |-> Undefined, language |-> Undefined, voice |-> Undefined]

\* a sentence of n characters
LongSentence(n) == Str([i \in 1..n |-> "a"])

ToolNames == {"synthesize_speech", "unknown_tool"}

\* the sentence arguments tried: absent, not a string, empty, one word, words
\* with white space around them, white space only, and the declared maximum
\* length and one more
Sentences ==
    {Undefined, Null, Num("42"), Num("0"), Str(<<>>), Str(<<"a">>),
     Str(<<" ", "a", " ", " ", "b", " ">>), Str(<<" ">>),
     LongSentence(ListTools[1].inputSchema.properties.sentence.maxLength),
     LongSentence(ListTools[1].inputSchema.properties.sentence.maxLength + 1)}

\* the language arguments tried
Languages ==
    {Undefined, Null, Num("5"), Str(<<>>), Str(<<"xx-XX">>), Str(<<"en-GB">>)}
    \cup {Str(<<supportedLanguages[i]>>) : i \in 1..Len(supportedLanguages)}

\* every voice VOICE_CONFIG names
ConfiguredVoices ==
    UNION {{VOICE_CONFIG[l].default}
           \cup {VOICE_CONFIG[l].alternatives[i] :
                    i \in 1..Len(VOICE_CONFIG[l].alternatives)} :
           l \in DOMAIN VOICE_CONFIG}

\* the voice arguments tried
Voices ==
    ConfiguredVoices
    \cup {Undefined, Null, Num("7"), Str(<<>>), Str(<<"xx-XX-NobodyNeural">>)}

\* the requests of the runs with several requests in flight
Requests ==
    {ListRequest,
     CallNoArgs("unknown_tool"),
     Call("synthesize_speech", Undefined, Str(<<"en-US">>), Undefined),
     Call("synthesize_speech", Str(<<"a">>), Str(<<"xx-XX">>), Undefined),
     Call("synthesize_speech", Str(<<"a", " ", "b">>), Str(<<"en-US">>),
          Str(<<"en-US-JennyMultilingualNeural">>))}

\* the requests of the runs that try the dispatcher on one request
DispatchRequests ==
    {ListRequest}
    \cup {CallNoArgs(n) : n \in ToolNames}
    \cup {Call(n, s, l, v) :
            n \in ToolNames, s \in Sentences, l \in Languages,
            v \in {Undefined, Str(<<"en-US-JennyMultilingualNeural">>),
                   Str(<<"xx-XX-NobodyNeural">>)}}

\* the requests of the runs that try every language with every voice
VoiceRequests ==
    {Call("synthesize_speech", Str(<<"a">>), l, v) :
        l \in {Str(<<supportedLanguages[i]>>) : i \in 1..Len(supportedLanguages)},
        v \in Voices}

\* ------------------------------------------------------------ state
VARIABLES
    AZURE_SPEECH_KEY,   \* the configured key, read once at start
    now,                \* the millisecond clock (Date.now())
    req,                \* req[r]: the request received in slot r
    pc,                 \* pc[r]: "idle", "received", "awaiting" or "done"
    loc,                \* loc[r]: the locals of r's synthesizeSpeech call
    outcome,            \* outcome[r]: the promise of r's synthesizeSpeech call
    responses,          \* responses[r]: the responses sent for r, in order
    synthCalls,         \* synthCalls[r]: speakTextAsync calls issued for r
    written,            \* the files written, in order: [path, rid]
    synthEvent,         \* synthEvent[r]: what the Speech SDK delivered for r
    voiceCall           \* the last direct call of getVoiceForLanguage

vars ==
    <<AZURE_SPEECH_KEY, now, req, pc, loc, outcome, responses, synthCalls,
      written, synthEvent, voiceCall>>

NoEvent ==
    [kind |-> "none", writeOk |-> TRUE,
     result |-> [errorDetails |-> Undefined, hasAudioData |-> FALSE, byteLength |-> 0,
                 hasAudioDuration |-> FALSE, audioDuration |-> 0]]

NoVoiceCall == [called |-> FALSE, language |-> Undefined, voice |-> Undefined,
                result |-> Undefined]

Init ==
    /\ AZURE_SPEECH_KEY \in SpeechKeys
    /\ now = 0
    /\ req = [r \in ReqIds |-> NoReq]
    /\ pc = [r \in ReqIds |-> "idle"]
    /\ loc = [r \in ReqIds |-> NoLocals]
    /\ outcome = [r \in ReqIds |-> NoOutcome]
    /\ responses = [r \in ReqIds |-> <<>>]
    /\ synthCalls = [r \in ReqIds |-> 0]
    /\ written = <<>>
    /\ synthEvent = [r \in ReqIds |-> NoEvent]
    /\ voiceCall = NoVoiceCall

\* ------------------------------------------------------------ actions
\* the transport delivers request q with id r; ids are given in order
Receive(r, q) ==
    /\ pc[r] = "idle"
    /\ IF r = 1 THEN TRUE ELSE pc[r - 1] # "idle"
    /\ req' = [req EXCEPT ![r] = q]
    /\ pc' = [pc EXCEPT ![r] = "received"]
    /\ UNCHANGED <<AZURE_SPEECH_KEY, now, loc, outcome, responses, synthCalls,
                   written, synthEvent, voiceCall>>

\* the handlers of the requests received are started in the order of arrival
StartsInOrder(r) == \A o \in ReqIds : o < r => pc[o] # "received"

\* the ListToolsRequestSchema handler runs and its result is sent
HandleListTools(r) ==
    /\ pc[r] = "received"
    /\ StartsInOrder(r)
    /\ req[r].method = "tools/list"
    /\ responses' = [responses EXCEPT ![r] = Append(@, ToolsResponse(ListTools))]
    /\ pc' = [pc EXCEPT ![r] = "done"]
    /\ UNCHANGED <<AZURE_SPEECH_KEY, now, req, loc, outcome, synthCalls, written,
                   synthEvent, voiceCall>>

\* the handler's `await synthesizeSpeech(...)` once the promise is settled:
\* the handler returns and its content is sent; while the promise is pending
\* the handler stays suspended
Resume(r, settled) ==
    /\ outcome' = [outcome EXCEPT ![r] = settled]
    /\ IF settled.state \in {"resolved", "rejected"}
       THEN /\ responses' = [responses EXCEPT ![r] = Append(@, HandlerReturn(settled))]
            /\ pc' = [pc EXCEPT ![r] = "done"]
       ELSE /\ pc' = [pc EXCEPT ![r] = "awaiting"]
            /\ UNCHANGED responses

\* the CallToolRequestSchema handler runs up to its first suspension: it
\* throws (an error response is sent), or synthesizeSpeech rejects at once
\* (the catch block's content is sent), or speakTextAsync is issued and the
\* handler awaits
HandleCallTool(r) ==
    /\ pc[r] = "received"
    /\ StartsInOrder(r)
    /\ req[r].method = "tools/call"
    /\ LET q == req[r]
           check == ValidateCall(q)
           start == SynthesizeStart(q.sentence, q.language, q.voice,
                                    AZURE_SPEECH_KEY, now)
       IN  IF check.thrown
           THEN /\ responses' = [responses EXCEPT
                                    ![r] = Append(@, ErrorResponse(check.message))]
                /\ pc' = [pc EXCEPT ![r] = "done"]
                /\ UNCHANGED <<loc, outcome, synthCalls>>
           ELSE IF start.kind = "reject"
           THEN /\ Resume(r, Rejected(start.message))
                /\ UNCHANGED <<loc, synthCalls>>
           ELSE /\ loc' = [loc EXCEPT ![r] = start.locals]
                /\ synthCalls' = [synthCalls EXCEPT ![r] = @ + start.calls]
                /\ Resume(r, Pending)
    /\ UNCHANGED <<AZURE_SPEECH_KEY, now, req, written, synthEvent, voiceCall>>

\* the success callback reaches writeFileSync with this result
ReachesWrite(result) ==
    ~Truthy(result.errorDetails) /\ result.hasAudioData /\ result.byteLength # 0

\* the Speech SDK calls the success callback with result; writeFileSync
\* succeeds or throws; the promise settles and the handler resumes
SpeakResult(r, result, writeOk) ==
    /\ pc[r] = "awaiting"
    /\ synthEvent[r].kind = "none"
    /\ ~writeOk => ReachesWrite(result)
    /\ synthEvent' = [synthEvent EXCEPT
                        ![r] = [kind |-> "result", writeOk |-> writeOk, result |-> result]]
    /\ LET q == req[r]
           cb == SpeakCallback(q.sentence, q.language, loc[r], result,
                               now - loc[r].startTime, writeOk)
       IN  /\ written' = IF cb.wrote
                         THEN Append(written, [path |-> loc[r].outputPath, rid |-> r])
                         ELSE written
           /\ Resume(r, cb.settle)
    /\ UNCHANGED <<AZURE_SPEECH_KEY, now, req, loc, synthCalls, voiceCall>>

\* the Speech SDK calls the error callback; the promise is rejected and the
\* handler resumes
SpeakError(r) ==
    /\ pc[r] = "awaiting"
    /\ synthEvent[r].kind = "none"
    /\ synthEvent' = [synthEvent EXCEPT ![r] = [NoEvent EXCEPT !.kind = "error"]]
    /\ Resume(r, SpeakErrorCallback)
    /\ UNCHANGED <<AZURE_SPEECH_KEY, now, req, loc, synthCalls, written, voiceCall>>

\* a millisecond passes
Tick ==
    /\ now < MaxClock
    /\ now' = now + 1
    /\ UNCHANGED <<AZURE_SPEECH_KEY, req, pc, loc, outcome, responses, synthCalls,
                   written, synthEvent, voiceCall>>

\* getVoiceForLanguage is called on its own, in a run that serves no request
ResolveVoice(language, voice) ==
    /\ \A r \in ReqIds : pc[r] = "idle"
    /\ voiceCall' = [called |-> TRUE, language |-> language, voice |-> voice,
                     result |-> getVoiceForLanguage(language, voice)]
    /\ UNCHANGED <<AZURE_SPEECH_KEY, now, req, pc, loc, outcome, responses,
                   synthCalls, written, synthEvent>>

\* ------------------------------------------------------------ specifications
\* several requests in flight
Next ==
    \/ \E r \in ReqIds, q \in Requests : Receive(r, q)
    \/ \E r \in ReqIds : HandleListTools(r)
    \/ \E r \in ReqIds : HandleCallTool(r)
    \/ \E r \in ReqIds, result \in SynthResults, writeOk \in BOOLEAN :
          SpeakResult(r, result, writeOk)
    \/ \E r \in ReqIds : SpeakError(r)
    \/ Tick

Spec == Init /\ [][Next]_vars

\* the Speech SDK invokes one of the two callbacks of r's speakTextAsync
SdkCallsBack(r) ==
    \/ \E result \in SynthResults, writeOk \in BOOLEAN : SpeakResult(r, result, writeOk)
    \/ SpeakError(r)

\* the tools/call requests of the runs with several requests in flight
CallRequests == {q \in Requests : q.method = "tools/call"}

\* several tools/call requests in flight, the clock standing still
LiveNext ==
    \/ \E r \in ReqIds, q \in CallRequests : Receive(r, q)
    \/ \E r \in ReqIds : HandleCallTool(r)
    \/ \E r \in ReqIds : SdkCallsBack(r)

\* the event loop runs every handler that was started, and the Speech SDK
\* invokes a callback for every synthesis call
LiveSpec ==
    /\ Init
    /\ [][LiveNext]_vars
    /\ \A r \in ReqIds :
          /\ WF_vars(HandleCallTool(r))
          /\ WF_vars(SdkCallsBack(r))

\* one request, every shape of arguments
DispatchNext ==
    \/ \E q \in DispatchRequests : Receive(1, q)
    \/ HandleListTools(1)
    \/ HandleCallTool(1)
    \/ \E result \in SynthResults, writeOk \in BOOLEAN : SpeakResult(1, result, writeOk)
    \/ SpeakError(1)
    \/ Tick

DispatchSpec == Init /\ [][DispatchNext]_vars

\* getVoiceForLanguage on every language and voice, and one request with
\* every supported language and every voice
VoiceNext ==
    \/ \E l \in Languages, v \in Voices : ResolveVoice(l, v)
    \/ \E q \in VoiceRequests : ~voiceCall.called /\ Receive(1, q)
    \/ HandleCallTool(1)
    \/ \E result \in SynthResults, writeOk \in BOOLEAN : SpeakResult(1, result, writeOk)
    \/ SpeakError(1)

VoiceSpec == Init /\ [][VoiceNext]_vars


\* ------------------------------------------------------------ claims
\* the fragment that follows label in a text
After(text, label) ==
    text[1 + CHOOSE i \in 1..Len(text) : text[i] = label]

\* the single response of a request that is done
Response(r) == responses[r][1]

IsCall(r) == req[r].method = "tools/call"
Registered(r) == req[r].name = <<"synthesize_speech">>

\* no file was written for request r
NoFileFor(r) == \A i \in 1..Len(written) : written[i].rid # r

\* C1 -------------------------------------------------------------------
\* the voice the claim names for language L and requested voice V
ClaimedVoice(L, V) ==
    IF IsString(L) /\ Len(L.v) = 1 /\ L.v[1] \in DOMAIN VOICE_CONFIG
    THEN LET profile == VOICE_CONFIG[L.v[1]]
         IN  IF V = profile.default
                \/ \E i \in 1..Len(profile.alternatives) : profile.alternatives[i] = V
             THEN V
             ELSE profile.default
    ELSE Str(<<"en-US-RyanMultilingualNeural">>)

C2_UnknownTool ==
    \A r \in ReqIds :
        (IsCall(r) /\ ~Registered(r)) =>
            /\ synthCalls[r] = 0
            /\ NoFileFor(r)
            /\ pc[r] \in {"received", "done"}
            /\ pc[r] = "done" =>
                  /\ Len(responses[r]) = 1
                  /\ Response(r).shape = "error"
                  /\ Includes(Response(r).text, req[r].name[1])

\* C2 witness: an unknown tool called with arguments that lack the sentence
\* was answered
C2_Witness ==
    \E r \in ReqIds :
        /\ IsCall(r) /\ ~Registered(r) /\ pc[r] = "done"
        /\ req[r].hasArgs /\ req[r].sentence = Undefined
        /\ Response(r).shape = "error"

\* C3 -------------------------------------------------------------------
\* a required field is missing or not a string
NotAString(x) == x.t # "string"

\* C3: a call of synthesize_speech whose sentence is missing or not a string
\* is answered with an error that names "sentence"; one whose sentence is a
\* non-empty string and whose language is missing or not a string is answered
\* with an error that names "language"; neither issues a synthesis call.
C3_RequiredFields ==
    \A r \in ReqIds :
        (IsCall(r) /\ Registered(r)
            /\ (NotAString(req[r].sentence) \/ NotAString(req[r].language))) =>
            /\ synthCalls[r] = 0
            /\ pc[r] \in {"received", "done"}
            /\ pc[r] = "done" =>
                  /\ Len(responses[r]) = 1
                  /\ Response(r).shape = "error"
                  /\ NotAString(req[r].sentence) =>
                        Includes(Response(r).text, "sentence")
                  /\ (IsString(req[r].sentence) /\ req[r].sentence.v # <<>>) =>
                        Includes(Response(r).text, "language")

\* C3 witness: a call with a valid sentence and a language that is a number
\* was answered with an error naming the language
C3_Witness ==
    \E r \in ReqIds :
        /\ IsCall(r) /\ Registered(r) /\ pc[r] = "done"
        /\ req[r].sentence = Str(<<"a">>)
        /\ req[r].language.t = "number"
        /\ Response(r).shape = "error"
        /\ Includes(Response(r).text, "language")

\* C4 -------------------------------------------------------------------
SupportedSet == {"en-US", "fi-FI", "es-ES", "de-DE", "fr-FR", "sv-SE"}

\* C4: a call of synthesize_speech with a non-empty string sentence and a
\* non-empty string language outside the six supported codes never issues a
\* synthesis call and is answered with an error whose message holds each of
\* the six codes.
C4_UnsupportedLanguage ==
    \A r \in ReqIds :
        (IsCall(r) /\ Registered(r) /\ req[r].hasArgs
            /\ IsString(req[r].sentence) /\ req[r].sentence.v # <<>>
            /\ IsString(req[r].language) /\ req[r].language.v # <<>>
            /\ req[r].language.v[1] \notin SupportedSet) =>
            /\ synthCalls[r] = 0
            /\ pc[r] \in {"received", "done"}
            /\ pc[r] = "done" =>
                  /\ Len(responses[r]) = 1
                  /\ Response(r).shape = "error"
                  /\ \A l \in SupportedSet : Includes(Response(r).text, l)

\* C4 witness: a call with language xx-XX was answered with an error
C4_Witness ==
    \E r \in ReqIds :
        /\ IsCall(r) /\ Registered(r) /\ pc[r] = "done"
        /\ req[r].sentence = Str(<<"a">>)
        /\ req[r].language = Str(<<"xx-XX">>)
        /\ Response(r).shape = "error"


\* C5 -------------------------------------------------------------------
\* request r passed the handler's validation
Validated(r) == IsCall(r) /\ ~ValidateCall(req[r]).thrown

CredentialsAbsent == ~Truthy(AZURE_SPEECH_KEY)

\* r has exactly one response, a content response whose text holds fragment
\* and is not the success text
FailureContent(r, fragment) ==
    /\ Len(responses[r]) = 1
    /\ Response(r).shape = "content"
    /\ Includes(Response(r).text, fragment)
    /\ ~Includes(Response(r).text, "Speech synthesis completed successfully!")

\* C5: for a validated tools/call, missing credentials, the SDK's error
\* callback, error details in the SDK's result, an absent or empty audio
\* payload and a failed file write are each answered with a content response
\* whose text describes that failure, never with an error response.
C5_DomainFailures ==
    \A r \in ReqIds :
        (Validated(r) /\ pc[r] = "done") =>
            /\ CredentialsAbsent =>
                  FailureContent(r, "Azure Speech Service credentials not configured. Please set AZURE_SPEECH_KEY and AZURE_SPEECH_REGION environment variables.")
            /\ synthEvent[r].kind = "error" =>
                  FailureContent(r, "Speech synthesis error: ")
            /\ (synthEvent[r].kind = "result" /\ Truthy(synthEvent[r].result.errorDetails)) =>
                  FailureContent(r, synthEvent[r].result.errorDetails.v[1])
            /\ (synthEvent[r].kind = "result" /\ ~Truthy(synthEvent[r].result.errorDetails)
                  /\ (~synthEvent[r].result.hasAudioData
                        \/ synthEvent[r].result.byteLength = 0)) =>
                  FailureContent(r, "Speech synthesis produced no audio data")
            /\ (synthEvent[r].kind = "result" /\ ~synthEvent[r].writeOk) =>
                  FailureContent(r, "Failed to save audio file: ")

\* C5 witness: a validated call whose file write failed was answered with
\* content
C5_Witness ==
    \E r \in ReqIds :
        /\ Validated(r) /\ pc[r] = "done"
        /\ synthEvent[r].kind = "result" /\ ~synthEvent[r].writeOk
        /\ Response(r).shape = "content"

\* C6 -------------------------------------------------------------------
\* C6: with the credentials absent no synthesis call is ever issued and no
\* file is ever written, and every validated call that was handled ended in
\* a rejection of synthesizeSpeech's promise.
C6_NoCredentialsNoCall ==
    CredentialsAbsent =>
        /\ written = <<>>
        /\ \A r \in ReqIds :
              /\ synthCalls[r] = 0
              /\ pc[r] # "awaiting"
              /\ (Validated(r) /\ pc[r] = "done") => outcome[r].state = "rejected"

\* C6 witness: without credentials a validated call was handled
C6_Witness ==
    /\ CredentialsAbsent
    /\ \E r \in ReqIds :
          Validated(r) /\ pc[r] = "done" /\ outcome[r].state = "rejected"

\* C7 -------------------------------------------------------------------
\* C7: a request never has two responses; it has one exactly when its
\* handler is done; the response of a tools/call is a content response or an
\* error response; a call is suspended only while the SDK has called neither
\* callback, so every callback of the SDK ends in the response.
C7_ExactlyOneResponse ==
    \A r \in ReqIds :
        /\ Len(responses[r]) <= 1
        /\ pc[r] = "done" <=> Len(responses[r]) = 1
        /\ (IsCall(r) /\ Len(responses[r]) = 1) =>
              Response(r).shape \in {"content", "error"}
        /\ synthEvent[r].kind # "none" => (pc[r] = "done" /\ Len(responses[r]) = 1)

\* C7 witness: a call whose synthesis returned no audio has its one response
C7_Witness ==
    \E r \in ReqIds :
        /\ synthEvent[r].kind = "result"
        /\ ~synthEvent[r].result.hasAudioData
        /\ ~Truthy(synthEvent[r].result.errorDetails)
        /\ pc[r] = "done"
        /\ Len(responses[r]) = 1

\* C8 -------------------------------------------------------------------
\* the set of the elements of a sequence
Range(seq) == {seq[i] : i \in 1..Len(seq)}

\* C8: every tools/list that is received can be handled as soon as the
\* requests that arrived before it have been started, whatever those are
\* waiting for, and every handled tools/list has one response: a list of exactly one tool, named
\* synthesize_speech, whose schema requires sentence and language; the
\* response is the same whatever else was handled.
C8_ListTools ==
    \A r \in ReqIds :
        req[r].method = "tools/list" =>
            /\ pc[r] \in {"received", "done"}
            /\ (pc[r] = "received" /\ StartsInOrder(r)) =>
                  ENABLED HandleListTools(r)
            /\ pc[r] = "done" =>
                  /\ Len(responses[r]) = 1
                  /\ Response(r).shape = "tools"
                  /\ Len(Response(r).tools) = 1
                  /\ Response(r).tools[1].name = "synthesize_speech"
                  /\ Range(Response(r).tools[1].inputSchema.required)
                        = {"sentence", "language"}
                  /\ \A o \in ReqIds :
                        (req[o].method = "tools/list" /\ pc[o] = "done") =>
                            responses[o] = responses[r]

\* C8 witness: a tools/list was answered after a tools/call had been answered
C8_Witness ==
    \E r, o \in ReqIds :
        /\ o < r
        /\ IsCall(o) /\ pc[o] = "done"
        /\ req[r].method = "tools/list" /\ pc[r] = "done"
        /\ Response(r).shape = "tools"

\* C9 -------------------------------------------------------------------
\* C9 (as claimed): a call whose sentence is empty or longer than the declared
\* 1000 characters gets an error response and no synthesis call, so every
\* synthesis call is for a sentence of 1 to 1000 characters.
C9_LengthBound ==
    \A r \in ReqIds :
        /\ (IsCall(r) /\ Registered(r) /\ req[r].hasArgs /\ IsString(req[r].sentence)
              /\ (Len(req[r].sentence.v) < ListTools[1].inputSchema.properties.sentence.minLength
                    \/ Len(req[r].sentence.v) > ListTools[1].inputSchema.properties.sentence.maxLength)) =>
              /\ synthCalls[r] = 0
              /\ pc[r] = "done" => Response(r).shape = "error"
        /\ synthCalls[r] > 0 =>
              /\ Len(req[r].sentence.v) >= ListTools[1].inputSchema.properties.sentence.minLength
              /\ Len(req[r].sentence.v) <= ListTools[1].inputSchema.properties.sentence.maxLength

\* C10 ------------------------------------------------------------------
\* the key is a string with a character that is not white space
CredentialsPresent ==
    /\ IsString(AZURE_SPEECH_KEY)
    /\ \E i \in 1..Len(AZURE_SPEECH_KEY.v) : AZURE_SPEECH_KEY.v[i] \notin {" ", "\t", "\n"}

\* C10: no request ever has more than one synthesis call; with credentials
\* present a validated call has exactly one from the moment its handler ran,
\* and still exactly one after the SDK's error callback, error details, empty
\* audio or a failed write.
C10_OneSynthesisCall ==
    \A r \in ReqIds :
        /\ synthCalls[r] <= 1
        /\ (CredentialsPresent /\ Validated(r) /\ pc[r] \in {"awaiting", "done"}) =>
              synthCalls[r] = 1
        /\ synthEvent[r].kind # "none" => synthCalls[r] = 1

\* C10 witness: a validated call whose synthesis ended in the error callback
\* is done with its one synthesis call
C10_Witness ==
    \E r \in ReqIds :
        /\ CredentialsPresent /\ Validated(r) /\ pc[r] = "done"
        /\ synthEvent[r].kind = "error"
        /\ synthCalls[r] = 1


\* C11 ------------------------------------------------------------------
\* C11 (as claimed): no two file writes go to the same output path, so no
\* audio file is ever rewritten, also when two syntheses use the same
\* language and voice and read the same clock value.
C11_NoPathWrittenTwice ==
    \A i, j \in 1..Len(written) :
        i # j => written[i].path # written[j].path


\* C12 ------------------------------------------------------------------
\* C12 (as claimed): of two tools/call requests the later one has no
\* synthesis call issued and no file written before the earlier one has its
\* response.
C12_OneAtATime ==
    \A r1, r2 \in ReqIds :
        (r1 < r2 /\ IsCall(r1) /\ IsCall(r2)
            /\ (synthCalls[r2] > 0 \/ ~NoFileFor(r2))) =>
            Len(responses[r1]) = 1

\* C12 (amended): requests overlap at the await.  Of two tools/call requests
\* the later one has no synthesis call issued and no file written before the
\* handler of the earlier one has run up to its await or its response; and
\* within one request the synthesis call precedes the file write, which comes
\* with the response: a request with a file is done, had one synthesis call
\* and reports that file, and a suspended request has neither file nor
\* response.
C12_OverlapAtAwait ==
    /\ \A r1, r2 \in ReqIds :
          (r1 < r2 /\ IsCall(r1) /\ IsCall(r2)
              /\ (synthCalls[r2] > 0 \/ ~NoFileFor(r2))) =>
              pc[r1] \in {"awaiting", "done"}
    /\ \A r \in ReqIds :
          /\ pc[r] = "awaiting" => (Len(responses[r]) = 0 /\ NoFileFor(r))
          /\ ~NoFileFor(r) =>
                /\ pc[r] = "done"
                /\ synthCalls[r] = 1
                /\ Len(responses[r]) = 1
                /\ Includes(Response(r).text, "Speech synthesis completed successfully!")
                /\ \E i \in 1..Len(written) :
                      written[i].rid = r /\ written[i].path = outcome[r].result.audioFile

\* C12 witness: the second request's synthesis call is issued while the first
\* request is suspended at its await, without a response
C12_Witness ==
    \E r1, r2 \in ReqIds :
        /\ r1 < r2
        /\ pc[r1] = "awaiting" /\ Len(responses[r1]) = 0
        /\ synthCalls[r2] = 1


\* C13 ------------------------------------------------------------------
\* x is the quotient num/den rounded to hundredths
RoundedHundredths(x, num, den) ==
    /\ 2 * (x * den - 100 * num) <= den
    /\ 2 * (100 * num - x * den) <= den

\* C13: in every successful outcome charactersPerSecond and wordsPerMinute
\* are non-negative numbers with two decimals: charactersPerSecond is 0.00
\* when the elapsed time is zero and the rounded quotient of the sentence
\* length by the elapsed seconds otherwise; wordsPerMinute is 0.00 when the
\* SDK reports no audio duration or a duration of zero, and the rounded
\* quotient of 60 times the word count by the audio seconds otherwise.
C13_MetricsFinite ==
    \A r \in ReqIds :
        outcome[r].state = "resolved" =>
            LET m == outcome[r].result.metrics
                sdk == synthEvent[r].result
            IN  /\ m.charactersPerSecond \in Nat
                /\ m.wordsPerMinute \in Nat
                /\ m.synthesisTime = 0 => m.charactersPerSecond = 0
                /\ m.synthesisTime > 0 =>
                      RoundedHundredths(m.charactersPerSecond,
                                        Len(req[r].sentence.v) * 1000, m.synthesisTime)
                /\ (~sdk.hasAudioDuration \/ sdk.audioDuration = 0) =>
                      m.wordsPerMinute = 0
                /\ (sdk.hasAudioDuration /\ sdk.audioDuration > 0) =>
                      RoundedHundredths(m.wordsPerMinute, m.wordCount * 60 * 1000,
                                        sdk.audioDuration \div 10000)

\* C13 witness: a synthesis that succeeded within the same millisecond, with
\* no audio duration reported, has both rates at 0.00
C13_Witness ==
    \E r \in ReqIds :
        /\ outcome[r].state = "resolved"
        /\ outcome[r].result.metrics.synthesisTime = 0
        /\ ~synthEvent[r].result.hasAudioDuration
        /\ outcome[r].result.metrics.charactersPerSecond = 0
        /\ outcome[r].result.metrics.wordsPerMinute = 0
        /\ Includes(Response(r).text, "- Characters/Second: ")


\* C14 ------------------------------------------------------------------
\* C14: the keys of VOICE_CONFIG, the enum of the tool schema's language and
\* the handler's supportedLanguages are the same set of six codes; so every
\* tools/call that passed validation names a language with a profile, and
\* the voice chosen for a synthesis call is the default or an alternative of
\* that language's own profile.
C14_LanguageSetsAgree ==
    /\ DOMAIN VOICE_CONFIG = Range(supportedLanguages)
    /\ Range(ListTools[1].inputSchema.properties.language.enum) = Range(supportedLanguages)
    /\ Cardinality(DOMAIN VOICE_CONFIG) = Cardinality(SupportedSet)
    /\ \A r \in ReqIds :
          (Validated(r) /\ pc[r] \in {"awaiting", "done"}) =>
              /\ Len(req[r].language.v) = 1
              /\ req[r].language.v[1] \in DOMAIN VOICE_CONFIG
              /\ synthCalls[r] > 0 =>
                    loc[r].selectedVoice \in
                        {VOICE_CONFIG[req[r].language.v[1]].default}
                        \cup Range(VOICE_CONFIG[req[r].language.v[1]].alternatives)

\* C14 witness: a call for sv-SE passed validation and its synthesis call
\* uses the default voice of the sv-SE profile
C14_Witness ==
    \E r \in ReqIds :
        /\ Validated(r) /\ synthCalls[r] = 1
        /\ req[r].language = Str(<<"sv-SE">>)
        /\ loc[r].selectedVoice = Str(<<"sv-SE-MattiasNeural">>)


\* C15 ------------------------------------------------------------------
\* the terminal states of a tools/call
IsRejected(r) ==
    pc[r] = "done" /\ Len(responses[r]) = 1 /\ Response(r).shape = "error"
IsCompleted(r) ==
    pc[r] = "done" /\ Len(responses[r]) = 1 /\ Response(r).shape = "content"

\* C15: a tools/call whose handler is done is in exactly one terminal state,
\* Rejected when its validation failed and Completed when it passed; a
\* request that is done stays done with the same response; and, the SDK
\* invoking a callback for every synthesis call, every tools/call received
\* is eventually done, in Completed when it passed validation.
C15_TerminalStates ==
    /\ [](\A r \in ReqIds :
            (IsCall(r) /\ pc[r] = "done") =>
                /\ IsRejected(r) <=> ~IsCompleted(r)
                /\ IsRejected(r) <=> ValidateCall(req[r]).thrown
                /\ IsCompleted(r) <=> Validated(r))
    /\ [][\A r \in ReqIds :
            pc[r] = "done" =>
                (pc'[r] = "done" /\ responses'[r] = responses[r] /\ req'[r] = req[r])]_vars
    /\ \A r \in ReqIds :
          (IsCall(r) /\ pc[r] = "received") ~> (IsRejected(r) \/ IsCompleted(r))
    /\ \A r \in ReqIds :
          (Validated(r) /\ pc[r] = "received") ~> IsCompleted(r)

\* C15 witness: a validated call is Completed after the SDK delivered a
\* result without audio
C15_Witness ==
    \E r \in ReqIds :
        /\ Validated(r) /\ IsCompleted(r)
        /\ synthEvent[r].kind = "result"
        /\ ~synthEvent[r].result.hasAudioData


\* C16 ------------------------------------------------------------------
\* the number of white-space-delimited tokens of s: its maximal runs of
\* characters that are not white space
Tokens(s) ==
    Cardinality({i \in 1..Len(s) :
                    s[i] \notin {" ", "\t", "\n"}
                    /\ (IF i = 1 THEN TRUE ELSE s[i - 1] \in {" ", "\t", "\n"})})

\* C16 (as claimed): the wordCount of every successful outcome is the number
\* of white-space-delimited tokens of the sentence.
C16_WordCountIsTokens ==
    \A r \in ReqIds :
        outcome[r].state = "resolved" =>
            outcome[r].result.metrics.wordCount = Tokens(req[r].sentence.v)

====
